---- MODULE Spec2Model ----
(***************************************************************************)
(* Model of libcamera4j.cpp: the JNI handle broker of libcamera-4j.        *)
(*                                                                         *)
(* State: the global handle tables (g_cameraManagers, g_cameras,           *)
(* g_configurations, g_allocators, g_requests, g_mappedBuffers), the       *)
(* handle counter g_nextHandle, the per-camera completion queues           *)
(* g_completedRequests, the holder of g_mutex across a blocking call, and  *)
(* the part of the libcamera pipeline the file talks to (cameras running,  *)
(* slots connected to Camera::requestCompleted, requests in flight, the    *)
(* emission in progress on the pipeline thread, the process's mmap'ed      *)
(* regions).  Every JNI entry point that holds g_mutex from its first to   *)
(* its last statement is one action.  Entry points that do not are split   *)
(* where the lock is released or where they block:                         *)
(*   - CameraManager.nativeCreate calls allocHandle() BEFORE taking the    *)
(*     lock (lines 90-93): two steps;                                      *)
(*   - Camera.nativeStop calls the blocking Camera::stop() while holding   *)
(*     the lock (lines 315-322): two steps with the lock held in between;  *)
(*   - the pipeline thread emits requestCompleted to every connected slot, *)
(*     each slot invocation locking g_mutex separately (lines 279-294).    *)
(* Variables whose comment says "history" are not program state; they      *)
(* record what happened so that the claims can be stated.                  *)
(*                                                                         *)
(* Three specifications run the same actions over different scenarios:     *)
(*   Spec        every resource kind is created and erased (the registry); *)
(*   SpecRouter  sessions, operations and the completion path;             *)
(*   SpecMapper  configurations, allocators and mapped views.              *)
(***************************************************************************)
EXTENDS Integers, Sequences, FiniteSets, TLC

\* ---------------------------------------------------------------- bounds
MaxPerKind      == 1   \* Spec: resources of one kind created in a run
MaxManagers     == 2   \* Spec: CameraManager objects created in a run
RouterMaxHandle == 4   \* SpecRouter: handles allocated in a run
MapperMaxHandle == 6   \* SpecMapper: handles allocated in a run
MaxConnect      == 2   \* slots connected to one camera's requestCompleted
MaxInflight     == 2   \* requests held by the pipeline at once
MaxSignals      == 2   \* completion signals emitted in a run
MaxStreams      == 1   \* stream roles asked of generateConfiguration
ControlsMaxHandle == 3 \* SpecControls: handles allocated in a run
StopMaxHandle   == 4   \* SpecStop: handles allocated in a run
ReleaseMaxHandle == 4  \* SpecRelease: handles allocated in a run
ThreadsMaxHandle == 5  \* SpecThreads: handles allocated in a run
ViewMaxHandle   == 5   \* SpecView: handles allocated in a run
MaxDest         == 4   \* SpecView: length of the destination array
MaxCopy         == 4   \* SpecView: greatest length asked of a copy

\* ----------------------------------------------------------- environment
Devices   == {1, 2}        \* native identity (Camera*) of each device
NoCamera  == 0             \* CameraManager::get() of an unknown id
Addrs     == {1, 2}        \* heap addresses a Request object can live at
NullStream == <<0, 0>>     \* StreamConfiguration::stream() before configure()

\* FrameBuffer::Plane {fd, offset, length}
Plane(fd, offset, length) == [fd |-> fd, offset |-> offset, length |-> length]

\* the plane lists of the buffers an allocation may produce
BufferShapes ==
    { << Plane(3, 0, 2) >>,
      << Plane(3, 1, 2), Plane(4, 0, 1) >>,
      << Plane(3, 0, 2), Plane(-1, 0, 2) >>,
      << Plane(3, 1, 2), Plane(4, 0, 0) >>,
      << Plane(-1, 0, 1) >>,
      << >> }

None == [none |-> TRUE]

VARIABLES
    g_cameraManagers,     \* handle -> [started]
    cmPending,            \* handle taken by nativeCreate and not yet inserted (0: none)
    g_cameras,            \* handle -> device (the shared_ptr<Camera> target)
    g_configurations,     \* handle -> [cam, size, applied]
    g_allocators,         \* handle -> [cam, buffers]
    g_requests,           \* handle -> [ptr, cam, status, via, controls, metadata]
    g_mappedBuffers,      \* handle -> [planes, totalLength, from, fb]; from, fb: history
    g_nextHandle,
    g_completedRequests,  \* handle -> queue of [ptr, op, via, seq]; ptr is the Request*,
                          \* the rest is history: the operation, its session, its signal
    g_mutex,              \* 0: free; h: held by nativeStop(h) blocked in Camera::stop()
    running,              \* device -> BOOLEAN   (pipeline: camera is Running)
    connected,            \* device -> number of slots connected to requestCompleted
    inflight,             \* sequence of [ptr, dev, op, via] queued to the pipeline
    emit,                 \* emission in progress on the pipeline thread, or None
    vmas,                 \* live mmap regions of the process: set of [addr, len]
    nsig,                 \* history: completion signals emitted so far
    owed,                 \* history: signals not yet handed to the caller
    returned,             \* history: handles returned by creation operations
    erased,               \* history: handles erased from their table
    born,                 \* history: handle -> [kind, id] at insertion
    last                  \* history: the operation that produced this state

tables  == <<g_cameraManagers, g_cameras, g_configurations, g_allocators,
             g_requests, g_mappedBuffers, g_completedRequests>>
pipe    == <<running, connected, inflight, emit, vmas>>
history == <<nsig, owed, returned, erased, born>>
vars    == <<tables, cmPending, g_nextHandle, g_mutex, pipe, history, last>>

\* ------------------------------------------------------------- std::map
\* Erase_keep: an erase that leaves the entry in place (faulty variant)
Erase_keep(f, k) == f

Put(f, k, v) == [x \in DOMAIN f \cup {k} |-> IF x = k THEN v ELSE f[x]]
Erase(f, k)  == [x \in DOMAIN f \ {k} |-> f[x]]
Set(f, k, v) == [f EXCEPT ![k] = v]
Empty        == [x \in {} |-> 0]

Min(S) == CHOOSE x \in S : \A y \in S : x <= y

\* key sets of every table, for frame conditions
Keys == [managers |-> DOMAIN g_cameraManagers,
         cameras  |-> DOMAIN g_cameras,
         configs  |-> DOMAIN g_configurations,
         allocs   |-> DOMAIN g_allocators,
         requests |-> DOMAIN g_requests,
         maps     |-> DOMAIN g_mappedBuffers,
         queues   |-> DOMAIN g_completedRequests]

\* history records, kept to what the claims read.
\*   Hit:    an operation found the handle it was given;
\*   Miss:   its lookup failed (kind: the table looked in);
\*   Create: a creation operation returned ret (0: failure);
\*   Did:    an operation whose result a claim reads, with that result.
\*   Event:  a step of the pipeline thread, which is given no handle.
\* stale: the handle given had been erased before the call.
Event(op, h, aux) ==
    [op |-> op, h |-> h, ret |-> 0, found |-> TRUE, stale |-> FALSE, aux |-> aux]
Hit(h) ==
    [op |-> "hit", h |-> 0, ret |-> 0, found |-> TRUE, stale |-> h \in erased, aux |-> <<>>]
Miss(kind, h) ==
    [op |-> "miss", h |-> 0, ret |-> 0, found |-> FALSE, stale |-> h \in erased,
     aux |-> kind]
Did(op, h, ret, aux) ==
    [op |-> op, h |-> h, ret |-> ret, found |-> TRUE, stale |-> h \in erased, aux |-> aux]
\* a call that found no entry for h and returned ret without raising
Quiet(call, kind, h, ret) ==
    [op |-> "quiet", h |-> 0, ret |-> ret, found |-> FALSE, stale |-> h \in erased,
     aux |-> [kind |-> kind, call |-> call]]
Create(kind, ret) ==
    [op |-> "create", h |-> 0, ret |-> ret, found |-> TRUE, stale |-> FALSE,
     aux |-> [kind |-> kind, keys |-> Keys, next |-> g_nextHandle, before |-> returned]]
CreateMiss(kind, h) ==
    [op |-> "create", h |-> 0, ret |-> 0, found |-> FALSE, stale |-> h \in erased,
     aux |-> [kind |-> kind, keys |-> Keys, next |-> g_nextHandle, before |-> returned]]

Max(S) == CHOOSE x \in S : \A y \in S : y <= x

\* jlong arguments a caller passes where a handle of one table is expected:
\* every key of the table and, for the lookups that miss, the handle erased
\* last, or 0 while none has been erased (every other value misses the same
\* way)
Args(table) ==
    DOMAIN table \cup (IF erased = {} THEN {0} ELSE {Max(erased)})

\* allocHandle(), lines 45-48: return g_nextHandle++.  allocHandle is the
\* value returned, Advance the counter afterwards.
\* Faulty variants, which the handle properties must tell from the code:
\* a counter that stays put, a handle that wraps around, a pre-incremented
\* handle.
Advance_stuck(n)  == n
allocHandle_wrap  == ((g_nextHandle - 1) % 2) + 1
allocHandle_next  == g_nextHandle + 1

allocHandle == g_nextHandle
Advance(n)  == n + 1

\* Unlocked_open: the lock is never found taken (faulty variant)
Unlocked_open == g_mutex >= 0

\* std::lock_guard<std::recursive_mutex> lock(g_mutex) can be constructed by
\* a thread that does not hold the lock
Unlocked == g_mutex = 0

Init ==
    /\ g_cameraManagers = Empty
    /\ cmPending = 0
    /\ g_cameras = Empty
    /\ g_configurations = Empty
    /\ g_allocators = Empty
    /\ g_requests = Empty
    /\ g_mappedBuffers = Empty
    /\ g_nextHandle = 1
    /\ g_completedRequests = Empty
    /\ g_mutex = 0
    /\ running = [d \in Devices |-> FALSE]
    /\ connected = [d \in Devices |-> 0]
    /\ inflight = <<>>
    /\ emit = None
    /\ vmas = {}
    /\ nsig = 0
    /\ owed = {}
    /\ returned = {}
    /\ erased = {}
    /\ born = Empty
    /\ last = Hit(0)

\* Same_burn: a handle is allocated before the checks, and lost when the
\* call fails (faulty variant)
Same_burn(record) ==
    /\ last' = record
    /\ g_nextHandle' = g_nextHandle + 1
    /\ UNCHANGED <<tables, cmPending, g_mutex, pipe, history>>

\* the frame of an operation that changes nothing but the history record
Same(record) ==
    /\ last' = record
    /\ UNCHANGED <<tables, cmPending, g_nextHandle, g_mutex, pipe, history>>

\* --------------------------------------------------------- CameraManager

\* nativeCreate, lines 88-90: make_shared<CameraManager>() then allocHandle().
\* libcamera allows one CameraManager object per process (constructing a
\* second one aborts), so the constructor returns only when none is alive.
\* allocHandle() locks g_mutex on its own; the lock is NOT held afterwards.
CameraManager_nativeCreate_alloc ==
    /\ Unlocked
    /\ DOMAIN g_cameraManagers = {} /\ cmPending = 0
    /\ cmPending' = allocHandle
    /\ g_nextHandle' = Advance(g_nextHandle)
    /\ last' = Hit(0)
    /\ UNCHANGED <<tables, g_mutex, pipe, history>>

\* nativeCreate, lines 96-99: the constructor throws; 0 is returned.
CameraManager_nativeCreate_throw ==
    /\ DOMAIN g_cameraManagers = {} /\ cmPending = 0
    /\ Same(Create("manager", 0))

\* nativeCreate, lines 92-95: lock, insert, return handle.
CameraManager_nativeCreate_insert ==
    /\ Unlocked
    /\ cmPending # 0
    /\ g_cameraManagers' = Put(g_cameraManagers, cmPending, [started |-> FALSE])
    /\ cmPending' = 0
    /\ returned' = returned \cup {cmPending}
    /\ born' = Put(born, cmPending, [kind |-> "manager", id |-> cmPending])
    /\ last' = Create("manager", cmPending)
    /\ UNCHANGED <<g_cameras, g_configurations, g_allocators, g_requests, g_mappedBuffers,
                   g_completedRequests, g_nextHandle, g_mutex, pipe, nsig, owed, erased>>

\* nativeDestroy, lines 102-107
CameraManager_nativeDestroy(handle) ==
    /\ Unlocked
    /\ IF handle \notin DOMAIN g_cameraManagers
       THEN Same(Quiet("destroy", "manager", handle, 0))
       ELSE /\ g_cameraManagers' = Erase(g_cameraManagers, handle)
            /\ erased' = erased \cup {handle}
            /\ last' = Hit(handle)
            /\ UNCHANGED <<g_cameras, g_configurations, g_allocators, g_requests,
                           g_mappedBuffers, g_completedRequests, cmPending, g_nextHandle,
                           g_mutex, pipe, nsig, owed, returned, born>>

\* nativeStart, lines 109-120; CameraManager::start() succeeds or reports an error
CameraManager_nativeStart(handle) ==
    /\ Unlocked
    /\ IF handle \notin DOMAIN g_cameraManagers
       THEN Same(Miss("manager", handle))
       ELSE \E ok \in BOOLEAN :
            /\ g_cameraManagers' = [g_cameraManagers EXCEPT ![handle].started = @ \/ ok]
            /\ last' = Hit(handle)
            /\ UNCHANGED <<g_cameras, g_configurations, g_allocators, g_requests,
                           g_mappedBuffers, g_completedRequests, cmPending, g_nextHandle,
                           g_mutex, pipe, history>>

\* nativeStop, lines 122-130.  CameraManager::stop() joins the pipeline thread,
\* so it returns only when no slot invocation is waiting for g_mutex.
CameraManager_nativeStop(handle) ==
    /\ Unlocked
    /\ IF handle \notin DOMAIN g_cameraManagers
       THEN Same(Quiet("stop", "manager", handle, 0))
       ELSE /\ emit = None
            /\ g_cameraManagers' = [g_cameraManagers EXCEPT ![handle].started = FALSE]
            /\ last' = Hit(handle)
            /\ UNCHANGED <<g_cameras, g_configurations, g_allocators, g_requests,
                           g_mappedBuffers, g_completedRequests, cmPending, g_nextHandle,
                           g_mutex, pipe, history>>

\* it->second->get(id), line 167: the camera of that id once the manager has
\* enumerated (is started); a null pointer otherwise
CameraManager_get(handle, cameraId) ==
    IF g_cameraManagers[handle].started /\ cameraId \in Devices THEN cameraId ELSE NoCamera

\* nativeGetCamera, lines 156-178
CameraManager_nativeGetCamera(handle, cameraId) ==
    /\ Unlocked
    /\ IF handle \notin DOMAIN g_cameraManagers
       THEN Same(CreateMiss("camera", handle))
       ELSE LET camera == CameraManager_get(handle, cameraId) IN
            IF camera = NoCamera
            THEN Same(Create("camera", 0))
            ELSE /\ g_nextHandle' = Advance(g_nextHandle)
                 /\ g_cameras' = Put(g_cameras, allocHandle, camera)
                 /\ g_completedRequests' = Put(g_completedRequests, allocHandle, <<>>)
                 /\ returned' = returned \cup {allocHandle}
                 /\ born' = Put(born, allocHandle, [kind |-> "camera", id |-> camera])
                 /\ last' = Create("camera", allocHandle)
                 /\ UNCHANGED <<g_cameraManagers, g_configurations, g_allocators, g_requests,
                                g_mappedBuffers, cmPending, g_mutex, pipe, nsig, owed, erased>>


\* ----------------------------------------------------------------- Camera

\* g_completedRequests[handle], std::map::operator[]: the queue of a key,
\* an empty one when the key is absent (the key is then inserted)
QueueOf(handle) ==
    IF handle \in DOMAIN g_completedRequests THEN g_completedRequests[handle] ELSE <<>>

\* history: what is still owed once session h's queue is dropped
Settle(h) == {o \in owed : o.via # h}

\* Camera_nativeRelease_keepQueue: the completion queue is left behind
\* (faulty variant)
Camera_nativeRelease_keepQueue(handle) ==
    /\ Unlocked
    /\ handle \in DOMAIN g_cameras
    /\ g_cameras' = Erase(g_cameras, handle)
    /\ erased' = erased \cup {handle}
    /\ last' = Did("release", handle, 0, [queued |-> Len(QueueOf(handle))])
    /\ UNCHANGED <<g_cameraManagers, g_configurations, g_allocators, g_requests,
                   g_mappedBuffers, g_completedRequests, cmPending, g_nextHandle, g_mutex,
                   pipe, nsig, owed, returned, born>>

\* nativeRelease, lines 213-225 (Camera::release() changes nothing modelled here)
Camera_nativeRelease(handle) ==
    /\ Unlocked
    /\ IF handle \notin DOMAIN g_cameras
       THEN Same(Quiet("release", "camera", handle, 0))
       ELSE /\ g_cameras' = Erase(g_cameras, handle)
            /\ g_completedRequests' = Erase(g_completedRequests, handle)
            /\ erased' = erased \cup {handle}
            /\ owed' = Settle(handle)
            /\ last' = Did("release", handle, 0, [queued |-> Len(QueueOf(handle))])
            /\ UNCHANGED <<g_cameraManagers, g_configurations, g_allocators, g_requests,
                           g_mappedBuffers, cmPending, g_nextHandle, g_mutex, pipe,
                           nsig, returned, born>>

\* nativeAcquire, lines 201-211 (Camera::acquire() changes nothing modelled
\* here)
Camera_nativeAcquire(handle) ==
    /\ Unlocked
    /\ IF handle \notin DOMAIN g_cameras
       THEN Same(Miss("camera", handle))
       ELSE Same(Hit(handle))

\* line 307: requestCompleted.connect(requestCompleted) adds one more slot
Connect(n) == n + 1

\* nativeStart, lines 296-310.  The slot is connected before Camera::start()
\* is tried, whether or not start() then succeeds (it fails on a camera that
\* is already running or not configured).
Camera_nativeStart(handle) ==
    /\ Unlocked
    /\ IF handle \notin DOMAIN g_cameras
       THEN Same(Miss("camera", handle))
       ELSE LET cam == g_cameras[handle] IN
            \E ok \in BOOLEAN :
            /\ ok => ~running[cam]
            /\ connected[cam] < MaxConnect
            /\ connected' = Set(connected, cam, Connect(connected[cam]))
            /\ running' = Set(running, cam, running[cam] \/ ok)
            /\ last' = Hit(handle)
            /\ UNCHANGED <<tables, cmPending, g_nextHandle, g_mutex, inflight, emit, vmas,
                           history>>

\* nativeStop, lines 315-318: lock, look up, call Camera::stop().  stop() is a
\* blocking call into the pipeline thread, made with g_mutex held.
Camera_nativeStop_call(handle) ==
    /\ Unlocked
    /\ IF handle \notin DOMAIN g_cameras
       THEN Same(Quiet("stop", "camera", handle, 0))
       ELSE /\ g_mutex' = handle
            /\ running' = Set(running, g_cameras[handle], FALSE)
            /\ last' = Hit(handle)
            /\ UNCHANGED <<tables, cmPending, g_nextHandle, connected, inflight, emit, vmas,
                           history>>

\* Drain_one: a single pop instead of the loop (faulty variant)
Drain_one(q) == IF q = <<>> THEN q ELSE Tail(q)

\* lines 320-322: while (!queue.empty()) queue.pop()
Drain(q) == <<>>

\* nativeStop, lines 319-323: Camera::stop() has returned (the pipeline thread
\* has cancelled and signalled every request of the camera and is idle);
\* the queue is cleared and the lock released.
Camera_nativeStop_return ==
    /\ g_mutex # 0
    /\ emit = None
    /\ \A i \in 1 .. Len(inflight) : inflight[i].dev # g_cameras[g_mutex]
    /\ g_completedRequests' = Put(g_completedRequests, g_mutex, Drain(QueueOf(g_mutex)))
    /\ g_mutex' = 0
    /\ owed' = Settle(g_mutex)
    /\ last' = Did("stop", g_mutex, 0, [queued |-> Len(QueueOf(g_mutex))])
    /\ UNCHANGED <<g_cameraManagers, g_cameras, g_configurations, g_allocators, g_requests,
                   g_mappedBuffers, cmPending, g_nextHandle, pipe, nsig, returned, erased,
                   born>>

\* the ControlLists of a new Request, request->controls() and
\* request->metadata(): no control is present.  An optional value is the
\* set of at most one element.
NoControls == [ExposureTime |-> {}]
NoMetadata == [ExposureTime |-> {}, AnalogueGain |-> {}]

\* addresses at which operator new can place a Request: those of no live Request
FreeAddrs == Addrs \ {g_requests[r].ptr : r \in DOMAIN g_requests}

\* nativeCreateRequest, lines 326-346.  Camera::createRequest() returns a new
\* Request whose cookie is the Camera pointer, or null.
Camera_nativeCreateRequest(handle) ==
    /\ Unlocked
    /\ IF handle \notin DOMAIN g_cameras
       THEN Same(CreateMiss("request", handle))
       ELSE \/ Same(Create("request", 0))
            \/ \E ptr \in FreeAddrs :
                 /\ g_nextHandle' = Advance(g_nextHandle)
                 /\ g_requests' = Put(g_requests, allocHandle,
                                      [ptr |-> ptr, cam |-> g_cameras[handle],
                                       status |-> "pending", via |-> handle,
                                       controls |-> NoControls, metadata |-> NoMetadata])
                 /\ returned' = returned \cup {allocHandle}
                 /\ born' = Put(born, allocHandle, [kind |-> "request", id |-> ptr])
                 /\ last' = Create("request", allocHandle)
                 /\ UNCHANGED <<g_cameraManagers, g_cameras, g_configurations, g_allocators,
                                g_mappedBuffers, g_completedRequests, cmPending, g_mutex,
                                pipe, nsig, owed, erased>>

\* Camera::queueRequest(), line 365: the pipeline takes a request of this
\* camera while the camera runs and the request is pending
Camera_queueRequest(cam, req) ==
    running[cam] /\ req.cam = cam /\ req.status = "pending"

\* nativeQueueRequest, lines 348-366
Camera_nativeQueueRequest(handle, requestHandle) ==
    /\ Unlocked
    /\ IF handle \notin DOMAIN g_cameras
       THEN Same(Miss("camera", handle))
       ELSE IF requestHandle \notin DOMAIN g_requests
       THEN Same(Miss("request", requestHandle))
       ELSE LET req == g_requests[requestHandle] IN
            \/ Same(Hit(requestHandle))
            \/ /\ Camera_queueRequest(g_cameras[handle], req)
               /\ Len(inflight) < MaxInflight
               /\ inflight' = Append(inflight, [ptr |-> req.ptr, dev |-> req.cam,
                                                op |-> requestHandle, via |-> req.via])
               /\ last' = Hit(requestHandle)
               /\ UNCHANGED <<tables, cmPending, g_nextHandle, g_mutex, running, connected,
                              emit, vmas, history>>

\* ---------------------------------------------------------------- Request

\* nativeDestroy, lines 561-566
Request_nativeDestroy(handle) ==
    /\ Unlocked
    /\ IF handle \notin DOMAIN g_requests
       THEN Same(Quiet("destroy", "request", handle, 0))
       ELSE /\ g_requests' = Erase(g_requests, handle)
            /\ erased' = erased \cup {handle}
            /\ last' = Hit(handle)
            /\ UNCHANGED <<g_cameraManagers, g_cameras, g_configurations, g_allocators,
                           g_mappedBuffers, g_completedRequests, cmPending, g_nextHandle,
                           g_mutex, pipe, nsig, owed, returned, born>>

\* nativeReuse, lines 603-613: Request::reuse() makes the request pending
\* again and clears its controls and its metadata; -1 and nothing raised for
\* a handle not in the table
Request_nativeReuse(handle) ==
    /\ Unlocked
    /\ IF handle \notin DOMAIN g_requests
       THEN Same(Quiet("reuse", "request", handle, -1))
       ELSE /\ g_requests' = [g_requests EXCEPT ![handle].status = "pending",
                                                ![handle].controls = NoControls,
                                                ![handle].metadata = NoMetadata]
            /\ last' = Hit(handle)
            /\ UNCHANGED <<g_cameraManagers, g_cameras, g_configurations, g_allocators,
                           g_mappedBuffers, g_completedRequests, cmPending, g_nextHandle,
                           g_mutex, pipe, history>>

\* nativeSetExposureTime, lines 659-668: written to request->controls();
\* nothing done and nothing raised for a handle not in the table
Request_nativeSetExposureTime(handle, microseconds) ==
    /\ Unlocked
    /\ IF handle \notin DOMAIN g_requests
       THEN Same(Quiet("setExposureTime", "request", handle, 0))
       ELSE /\ g_requests' = [g_requests EXCEPT
                                 ![handle].controls.ExposureTime = {microseconds}]
            /\ last' = Did("setExposureTime", handle, 0, [value |-> microseconds])
            /\ UNCHANGED <<g_cameraManagers, g_cameras, g_configurations, g_allocators,
                           g_mappedBuffers, g_completedRequests, cmPending, g_nextHandle,
                           g_mutex, pipe, history>>

\* *opt when the optional holds a value, otherwise the default
ValueOr(opt, default) == IF opt = {} THEN default ELSE CHOOSE v \in opt : TRUE

\* nativeGetExposureTime, lines 916-931: read from request->metadata();
\* 0 when the control is absent or the handle is not in the table
Request_nativeGetExposureTime(handle) ==
    /\ Unlocked
    /\ IF handle \notin DOMAIN g_requests
       THEN Same(Quiet("getExposureTime", "request", handle, 0))
       ELSE Same(Did("getExposureTime", handle,
                     ValueOr(g_requests[handle].metadata.ExposureTime, 0),
                     [request |-> g_requests[handle],
                      queued |-> \E i \in 1 .. Len(inflight) : inflight[i].op = handle]))

\* lines 937 and 945: return 1.0
DefaultGain == 1

\* AnalogueGainOf_zero: 0 for an absent gain (faulty variant)
AnalogueGainOf_zero(metadata) == ValueOr(metadata.AnalogueGain, 0)

\* lines 940-945: the gain of the metadata, 1.0 when it holds none
AnalogueGainOf(metadata) == ValueOr(metadata.AnalogueGain, DefaultGain)

\* nativeGetAnalogueGain, lines 933-948
Request_nativeGetAnalogueGain(handle) ==
    /\ Unlocked
    /\ IF handle \notin DOMAIN g_requests
       THEN Same(Quiet("getAnalogueGain", "request", handle, DefaultGain))
       ELSE Same(Did("getAnalogueGain", handle, AnalogueGainOf(g_requests[handle].metadata),
                     [request |-> g_requests[handle]]))

\* ------------------------------------------------------ Completion Router

\* the Request objects now living at an address
LiveAt(ptr) == {r \in DOMAIN g_requests : g_requests[r].ptr = ptr}

\* request->cookie(), lines 281-282.  The pipeline passes the pointer it was
\* given at queue time.  When the Request was destroyed meanwhile the read is
\* from freed memory: it yields the cookie of whatever Request now lives
\* there, or any value when nothing does.
Cookies(ptr) ==
    IF LiveAt(ptr) # {} THEN {g_requests[r].cam : r \in LiveAt(ptr)}
    ELSE Devices \cup {0}

\* The pipeline completes (or cancels) the oldest request of a camera, having
\* written report to the request's metadata, and starts emitting
\* Camera::requestCompleted on its thread: one invocation per connected slot.
Signal(i, report) ==
    /\ emit = None
    /\ nsig < MaxSignals
    /\ i \in 1 .. Len(inflight)
    /\ \A j \in 1 .. i - 1 : inflight[j].dev # inflight[i].dev
    /\ LET e == inflight[i]
           n == connected[e.dev]
       IN  /\ inflight' = [j \in 1 .. Len(inflight) - 1 |->
                             IF j < i THEN inflight[j] ELSE inflight[j + 1]]
           /\ g_requests' = [r \in DOMAIN g_requests |->
                               IF g_requests[r].ptr = e.ptr
                               THEN [g_requests[r] EXCEPT !.status = "complete",
                                                          !.metadata = report]
                               ELSE g_requests[r]]
           /\ nsig' = nsig + 1
           /\ owed' = owed \cup {[seq |-> nsig + 1, op |-> e.op, via |-> e.via]}
           /\ \E cookie \in Cookies(e.ptr) :
                emit' = IF n = 0 THEN None
                        ELSE [ptr |-> e.ptr, cookie |-> cookie, op |-> e.op,
                              via |-> e.via, seq |-> nsig + 1, n |-> n]
           /\ last' = Event("signal", e.op, <<>>)
    /\ UNCHANGED <<g_cameraManagers, g_cameras, g_configurations, g_allocators,
                   g_mappedBuffers, g_completedRequests, cmPending, g_nextHandle, g_mutex,
                   running, connected, vmas, returned, erased, born>>

\* CameraHandleOf_released: a handle of the device that was released is
\* used when no live one is found (faulty variant)
CameraHandleOf_released(cam) ==
    IF \E h \in DOMAIN g_cameras : g_cameras[h] = cam
    THEN Min({h \in DOMAIN g_cameras : g_cameras[h] = cam})
    ELSE IF \E h \in erased : born[h] = [kind |-> "camera", id |-> cam]
    THEN Min({h \in erased : born[h] = [kind |-> "camera", id |-> cam]})
    ELSE 0

\* lines 287-292: the first handle, in key order, whose camera is cam (0: none)
CameraHandleOf(cam) ==
    IF \E h \in DOMAIN g_cameras : g_cameras[h] = cam
    THEN Min({h \in DOMAIN g_cameras : g_cameras[h] = cam})
    ELSE 0

\* Push_front: a push at the head of the queue (faulty variant)
Push_front(q, e) == <<e>> \o q

\* line 289: std::queue::push
Push(q, e) == Append(q, e)

\* requestCompleted(Request*), lines 279-294: one slot invocation
requestCompleted ==
    /\ emit # None
    /\ LET cam    == emit.cookie
           handle == CameraHandleOf(cam)
           entry  == [ptr |-> emit.ptr, op |-> emit.op, via |-> emit.via, seq |-> emit.seq]
       IN  /\ cam # 0 => Unlocked
           /\ g_completedRequests' =
                 IF cam # 0 /\ handle # 0
                 THEN Put(g_completedRequests, handle, Push(QueueOf(handle), entry))
                 ELSE g_completedRequests
           /\ last' = Event("requestCompleted", handle, entry)
    /\ emit' = IF emit.n = 1 THEN None ELSE [emit EXCEPT !.n = @ - 1]
    /\ UNCHANGED <<g_cameraManagers, g_cameras, g_configurations, g_allocators, g_requests,
                   g_mappedBuffers, cmPending, g_nextHandle, g_mutex, running, connected,
                   inflight, vmas, history>>

\* lines 857-863: the handle whose Request is at the address (0: none)
RequestHandleOf(req) ==
    IF LiveAt(req) # {} THEN Min(LiveAt(req)) ELSE 0

\* lines 853-854: front() and pop()
Front(q) == Head(q)
Pop(q)   == Tail(q)

\* history: the signals owed to session h, and the one a poll result settles
OwedTo(h) == {o \in owed : o.via = h}
Settled(h, ret) ==
    IF \E o \in OwedTo(h) : o.op = ret
    THEN {CHOOSE o \in OwedTo(h) :
            o.op = ret /\ \A p \in OwedTo(h) : p.op = ret => o.seq <= p.seq}
    ELSE {}

\* Camera_nativePollCompletedRequest_free: the poll destroys the operation it
\* returns (faulty variant)
Camera_nativePollCompletedRequest_free(handle) ==
    /\ Unlocked
    /\ handle \in DOMAIN g_completedRequests /\ g_completedRequests[handle] # <<>>
    /\ LET q   == g_completedRequests[handle]
           ret == RequestHandleOf(Front(q).ptr)
       IN  /\ g_completedRequests' = Set(g_completedRequests, handle, Pop(q))
           /\ g_requests' = Erase(g_requests, ret)
           /\ owed' = owed \ Settled(handle, ret)
           /\ last' = Did("poll", handle, ret,
                          [queued |-> Len(q), front |-> Front(q), rest |-> Pop(q),
                           owed |-> OwedTo(handle)])
           /\ UNCHANGED <<g_cameraManagers, g_cameras, g_configurations, g_allocators,
                          g_mappedBuffers, cmPending, g_nextHandle, g_mutex, pipe, nsig,
                          returned, erased, born>>

\* nativePollCompletedRequest, lines 843-864
Camera_nativePollCompletedRequest(handle) ==
    /\ Unlocked
    /\ IF handle \notin DOMAIN g_completedRequests \/ g_completedRequests[handle] = <<>>
       THEN Same([op |-> "poll", h |-> 0, ret |-> 0,
                  found |-> handle \in DOMAIN g_completedRequests,
                  stale |-> handle \in erased,
                  aux |-> [queued |-> 0, owed |-> OwedTo(handle)]])
       ELSE LET q   == g_completedRequests[handle]
                req == Front(q)
                ret == RequestHandleOf(req.ptr)
            IN  /\ g_completedRequests' = Set(g_completedRequests, handle, Pop(q))
                /\ owed' = owed \ Settled(handle, ret)
                /\ last' = Did("poll", handle, ret,
                               [queued |-> Len(q), front |-> req, rest |-> Pop(q),
                                owed |-> OwedTo(handle)])
                /\ UNCHANGED <<g_cameraManagers, g_cameras, g_configurations, g_allocators,
                               g_requests, g_mappedBuffers, cmPending, g_nextHandle, g_mutex,
                               pipe, nsig, returned, erased, born>>

\* -------------------------------------------------------- Configuration

\* nativeGenerateConfiguration, lines 227-256.  Camera::generateConfiguration()
\* returns a configuration with one entry per role, or null.
Camera_nativeGenerateConfiguration(handle, roles) ==
    /\ Unlocked
    /\ IF handle \notin DOMAIN g_cameras
       THEN Same(CreateMiss("config", handle))
       ELSE \/ Same(Create("config", 0))
            \/ /\ g_nextHandle' = Advance(g_nextHandle)
               /\ g_configurations' = Put(g_configurations, allocHandle,
                                          [cam |-> g_cameras[handle], size |-> roles,
                                           applied |-> FALSE])
               /\ returned' = returned \cup {allocHandle}
               /\ born' = Put(born, allocHandle, [kind |-> "config", id |-> allocHandle])
               /\ last' = Create("config", allocHandle)
               /\ UNCHANGED <<g_cameraManagers, g_cameras, g_allocators, g_requests,
                              g_mappedBuffers, g_completedRequests, cmPending, g_mutex,
                              pipe, nsig, owed, erased>>

\* nativeConfigure, lines 258-276.  Camera::configure() gives every entry of
\* an accepted configuration its Stream, or reports an error.
Camera_nativeConfigure(handle, configHandle) ==
    /\ Unlocked
    /\ IF handle \notin DOMAIN g_cameras
       THEN Same(Miss("camera", handle))
       ELSE IF configHandle \notin DOMAIN g_configurations
       THEN Same(Miss("config", configHandle))
       ELSE \/ Same(Hit(configHandle))
            \/ /\ g_configurations[configHandle].size > 0
               /\ g_configurations' = [g_configurations EXCEPT
                                         ![configHandle].applied = TRUE,
                                         ![configHandle].cam = g_cameras[handle]]
               /\ last' = Hit(configHandle)
               /\ UNCHANGED <<g_cameraManagers, g_cameras, g_allocators, g_requests,
                              g_mappedBuffers, g_completedRequests, cmPending, g_nextHandle,
                              g_mutex, pipe, history>>

\* CameraConfiguration.nativeDestroy, lines 372-377
CameraConfiguration_nativeDestroy(handle) ==
    /\ Unlocked
    /\ IF handle \notin DOMAIN g_configurations
       THEN Same(Quiet("destroy", "config", handle, 0))
       ELSE /\ g_configurations' = Erase(g_configurations, handle)
            /\ erased' = erased \cup {handle}
            /\ last' = Hit(handle)
            /\ UNCHANGED <<g_cameraManagers, g_cameras, g_allocators, g_requests,
                           g_mappedBuffers, g_completedRequests, cmPending, g_nextHandle,
                           g_mutex, pipe, nsig, owed, returned, born>>

\* ------------------------------------------------- FrameBufferAllocator

\* FrameBufferAllocator.nativeCreate, lines 483-498
FrameBufferAllocator_nativeCreate(cameraHandle) ==
    /\ Unlocked
    /\ IF cameraHandle \notin DOMAIN g_cameras
       THEN Same(CreateMiss("allocator", cameraHandle))
       ELSE /\ g_nextHandle' = Advance(g_nextHandle)
            /\ g_allocators' = Put(g_allocators, allocHandle,
                                   [cam |-> g_cameras[cameraHandle], buffers |-> Empty])
            /\ returned' = returned \cup {allocHandle}
            /\ born' = Put(born, allocHandle, [kind |-> "allocator", id |-> allocHandle])
            /\ last' = Create("allocator", allocHandle)
            /\ UNCHANGED <<g_cameraManagers, g_cameras, g_configurations, g_requests,
                           g_mappedBuffers, g_completedRequests, cmPending, g_mutex,
                           pipe, nsig, owed, erased>>

\* FrameBufferAllocator.nativeDestroy, lines 500-505
FrameBufferAllocator_nativeDestroy(handle) ==
    /\ Unlocked
    /\ IF handle \notin DOMAIN g_allocators
       THEN Same(Quiet("destroy", "allocator", handle, 0))
       ELSE /\ g_allocators' = Erase(g_allocators, handle)
            /\ erased' = erased \cup {handle}
            /\ last' = Hit(handle)
            /\ UNCHANGED <<g_cameraManagers, g_cameras, g_configurations, g_requests,
                           g_mappedBuffers, g_completedRequests, cmPending, g_nextHandle,
                           g_mutex, pipe, nsig, owed, returned, born>>

\* confIt->second->at(index).stream(): the Stream of an entry, null until the
\* configuration has been applied
StreamOf(conf, index) == IF conf.applied THEN <<conf.cam, index>> ELSE NullStream

\* the Streams some allocator holds buffers for
Streams == UNION {DOMAIN g_allocators[a].buffers : a \in DOMAIN g_allocators}

\* lines 716, 592, 879, 902: at(streamIndex) is vector::operator[] with no
\* range check.  In range it is the entry's Stream; out of range the read is
\* past the vector and may yield any pointer.
StreamsAt(conf, index) ==
    IF 0 <= index /\ index < conf.size THEN {StreamOf(conf, index)}
    ELSE {NullStream} \cup Streams

\* allocIt->second->buffers(stream): empty for a Stream never allocated
BuffersOf(alloc, stream) ==
    IF stream \in DOMAIN alloc.buffers THEN alloc.buffers[stream] ELSE <<>>

\* FrameBufferAllocator.nativeAllocate, lines 507-531.
\* FrameBufferAllocator::allocate() fills the Stream's buffer list once, for
\* a Stream of its own camera, or reports an error.  shape is the plane list
\* of the buffer the pipeline exports.
FrameBufferAllocator_nativeAllocate(handle, configHandle, streamIndex, shape) ==
    /\ Unlocked
    /\ IF handle \notin DOMAIN g_allocators
       THEN Same(Miss("allocator", handle))
       ELSE IF configHandle \notin DOMAIN g_configurations
       THEN Same(Miss("config", configHandle))
       ELSE LET conf  == g_configurations[configHandle]
                alloc == g_allocators[handle]
            IN  IF streamIndex < 0 \/ streamIndex >= conf.size
                THEN Same(Did("allocate", handle, -1, <<>>))
                ELSE LET stream == StreamOf(conf, streamIndex) IN
                     \/ Same(Did("allocate", handle, -1, <<>>))
                     \/   /\ stream # NullStream
                          /\ stream[1] = alloc.cam
                          /\ stream \notin DOMAIN alloc.buffers
                          /\ g_allocators' = [g_allocators EXCEPT ![handle].buffers =
                                                Put(@, stream, << shape >>)]
                          /\ last' = Did("allocate", handle, 1, <<>>)
                          /\ UNCHANGED <<g_cameraManagers, g_cameras, g_configurations,
                                         g_requests, g_mappedBuffers, g_completedRequests,
                                         cmPending, g_nextHandle, g_mutex, pipe, history>>

\* ---------------------------------------------------------- Buffer Mapper

\* mmap(nullptr, ...), line 763: a region at an address no live region has
Mmap(vm) == Min((1 .. Cardinality(vm) + 1) \ {r.addr : r \in vm})

\* munmap(data, length): the first length bytes of the region at data go
Munmap(vm, data, length) ==
    {r \in vm : r.addr # data}
    \cup {[addr |-> r.addr, len |-> r.len - length] : r \in {x \in vm : x.addr = data /\ x.len > length}}

\* UnmapAll_first: only the first plane is unmapped (faulty variant)
UnmapAll_first(vm, planes) ==
    IF planes = <<>> THEN vm ELSE Munmap(vm, Head(planes).data, Head(planes).length)

\* lines 741-743, 754-756, 766-768, 793-795:
\* for (auto& mp : planes) munmap(mp.data, mp.length)
RECURSIVE UnmapAll(_, _)
UnmapAll(vm, planes) ==
    IF planes = <<>> THEN vm
    ELSE UnmapAll(Munmap(vm, Head(planes).data, Head(planes).length), Tail(planes))

\* Rollback_leak: a roll-back that forgets the plane mapped first (faulty variant)
Rollback_leak(vm, planes) == IF planes = <<>> THEN vm ELSE UnmapAll(vm, Tail(planes))

\* the roll-back of the planes mapped so far when a plane fails
Rollback(vm, planes) == UnmapAll(vm, planes)

\* TotalLength_raw: the total counts the bytes mapped, leading offset
\* included (faulty variant)
TotalLength_raw(total, plane) == total + plane.offset + plane.length

\* line 752: size_t mapSize = plane.offset + plane.length
MapSize(plane) == plane.offset + plane.length

\* line 778: mappedBuffer.totalLength += plane.length
TotalLength(total, plane) == total + plane.length

\* the loop of lines 736-779 from plane i on (planes are numbered from 1
\* here, from 0 in the code); mmapFails is the plane whose mmap() returns
\* MAP_FAILED, 0 when none does
RECURSIVE MapPlanes(_, _, _, _, _)
MapPlanes(fbPlanes, i, mappedBuffer, vm, mmapFails) ==
    IF i > Len(fbPlanes)
    THEN [ok |-> TRUE, mappedBuffer |-> mappedBuffer, vm |-> vm, at |-> 0, why |-> "none"]
    ELSE LET plane   == fbPlanes[i]
             mapSize == MapSize(plane)
             failed(why) == [ok |-> FALSE, mappedBuffer |-> mappedBuffer,
                             vm |-> Rollback(vm, mappedBuffer.planes), at |-> i, why |-> why]
         IN  IF plane.fd < 0 THEN failed("fd")
             ELSE IF mapSize = 0 THEN failed("size")
             ELSE IF mmapFails = i THEN failed("mmap")
             ELSE LET data == Mmap(vm) IN
                  MapPlanes(fbPlanes, i + 1,
                            [planes |-> Append(mappedBuffer.planes,
                                               [data |-> data, length |-> mapSize,
                                                offset |-> plane.offset]),
                             totalLength |-> TotalLength(mappedBuffer.totalLength, plane)],
                            vm \cup {[addr |-> data, len |-> mapSize]}, mmapFails)

\* the range check of lines 523 and 549: streamIndex < 0 || streamIndex >= size()
InRange(conf, index) == 0 <= index /\ index < conf.size

\* history: the result of a map call that got past its handle lookups;
\* inRange tells whether the stream index it used was one of the configuration
MapResult(ret, inRange) ==
    [op |-> "create", h |-> 0, ret |-> ret, found |-> TRUE, stale |-> FALSE,
     aux |-> [kind |-> "map", keys |-> Keys, next |-> g_nextHandle, before |-> returned,
              inRange |-> inRange]]

\* FrameBuffer.nativeMapBuffer, lines 698-785.  The entry inserted is the
\* MappedBuffer; from and fb (history) are the allocator it was mapped from
\* and the planes of the FrameBuffer mapped.
FrameBuffer_nativeMapBuffer(allocatorHandle, configHandle, streamIndex, bufferIndex, mmapFails) ==
    /\ Unlocked
    /\ IF allocatorHandle \notin DOMAIN g_allocators
       THEN Same(CreateMiss("map", allocatorHandle))
       ELSE IF configHandle \notin DOMAIN g_configurations
       THEN Same(CreateMiss("map", configHandle))
       ELSE \E stream \in StreamsAt(g_configurations[configHandle], streamIndex) :
            LET buffers == BuffersOf(g_allocators[allocatorHandle], stream)
                inRange == InRange(g_configurations[configHandle], streamIndex)
            IN
            IF bufferIndex < 0 \/ bufferIndex >= Len(buffers)
            THEN Same(MapResult(0, inRange))
            ELSE LET fbPlanes == buffers[bufferIndex + 1] IN
                 IF fbPlanes = <<>>
                 THEN Same(MapResult(0, inRange))
                 ELSE LET m == MapPlanes(fbPlanes, 1, [planes |-> <<>>, totalLength |-> 0],
                                         vmas, mmapFails)
                      IN  IF ~m.ok
                          THEN /\ vmas' = m.vm
                               /\ last' = Did("map", allocatorHandle, 0,
                                              [at |-> m.at - 1, why |-> m.why,
                                               mapped |-> Len(m.mappedBuffer.planes),
                                               vmas |-> vmas, keys |-> Keys,
                                               next |-> g_nextHandle,
                                               inRange |-> inRange])
                               /\ UNCHANGED <<tables, cmPending, g_nextHandle, g_mutex,
                                              running, connected, inflight, emit, history>>
                          ELSE /\ vmas' = m.vm
                               /\ g_nextHandle' = Advance(g_nextHandle)
                               /\ g_mappedBuffers' =
                                      Put(g_mappedBuffers, allocHandle,
                                          [planes |-> m.mappedBuffer.planes,
                                           totalLength |-> m.mappedBuffer.totalLength,
                                           from |-> allocatorHandle, fb |-> fbPlanes])
                               /\ returned' = returned \cup {allocHandle}
                               /\ born' = Put(born, allocHandle,
                                              [kind |-> "map", id |-> allocHandle])
                               /\ last' = MapResult(allocHandle, inRange)
                               /\ UNCHANGED <<g_cameraManagers, g_cameras, g_configurations,
                                              g_allocators, g_requests, g_completedRequests,
                                              cmPending, g_mutex, running, connected,
                                              inflight, emit, nsig, owed, erased>>

\* FrameBuffer.nativeUnmapBuffer, lines 787-798
FrameBuffer_nativeUnmapBuffer(mapHandle) ==
    /\ Unlocked
    /\ IF mapHandle \notin DOMAIN g_mappedBuffers
       THEN Same([op |-> "unmap", h |-> 0, ret |-> 0, found |-> FALSE,
                  stale |-> mapHandle \in erased,
                  aux |-> [handle |-> mapHandle, vmas |-> vmas, keys |-> Keys]])
       ELSE /\ vmas' = UnmapAll(vmas, g_mappedBuffers[mapHandle].planes)
            /\ g_mappedBuffers' = Erase(g_mappedBuffers, mapHandle)
            /\ erased' = erased \cup {mapHandle}
            /\ last' = Did("unmap", mapHandle, 0,
                           [planes |-> g_mappedBuffers[mapHandle].planes, vmas |-> vmas])
            /\ UNCHANGED <<g_cameraManagers, g_cameras, g_configurations, g_allocators,
                           g_requests, g_completedRequests, cmPending, g_nextHandle, g_mutex,
                           running, connected, inflight, emit, nsig, owed, returned, born>>

\* FrameBuffer.nativeGetBufferSize, lines 800-809: 0 for a handle not in the
\* table, nothing thrown
FrameBuffer_nativeGetBufferSize(mapHandle) ==
    /\ Unlocked
    /\ IF mapHandle \notin DOMAIN g_mappedBuffers
       THEN Same(Quiet("getBufferSize", "map", mapHandle, 0))
       ELSE Same(Did("size", mapHandle, g_mappedBuffers[mapHandle].totalLength, <<>>))

\* the byte at position k of the mapping at address data; a byte of a Java
\* array that nothing has written
Byte(data, k) == <<data, k>>
Untouched     == <<>>
Blank(n)      == [j \in 1 .. n |-> Untouched]

\* JNI SetByteArrayRegion(array, start, len, buf): the region is written
\* when it lies within the array; otherwise ArrayIndexOutOfBoundsException
\* is raised and the array is left as it was.  buf is the mapping at data,
\* from position pos on.
InBounds(array, start, len) == start >= 0 /\ len >= 0 /\ start + len <= Len(array)
SetByteArrayRegion(array, start, len, data, pos) ==
    [j \in 1 .. Len(array) |->
        IF start < j /\ j <= start + len THEN Byte(data, pos + (j - start - 1))
        ELSE array[j]]

\* line 823: std::min((size_t)length, totalLength).  A negative jint
\* converts to a size_t of at least 2^63, above every totalLength.
Remaining(length, totalLength) ==
    IF length < 0 THEN totalLength ELSE Min({length, totalLength})

\* the loop of lines 825-836 over the planes left; pending: a
\* SetByteArrayRegion of this call has raised.  Calling SetByteArrayRegion
\* with an exception pending is outside the JNI contract: the call is then
\* either carried out as usual or not at all.  The result is the set of
\* outcomes [dest, threw].
RECURSIVE CopyPlanes(_, _, _, _, _)
CopyPlanes(planes, dest, destOffset, remaining, pending) ==
    IF planes = <<>> \/ remaining = 0
    THEN {[dest |-> dest, threw |-> pending]}
    ELSE LET plane        == Head(planes)
             planeDataLen == plane.length - plane.offset
             copyLen      == Min({remaining, planeDataLen})
             ok           == InBounds(dest, destOffset, copyLen)
             written      == IF ok THEN SetByteArrayRegion(dest, destOffset, copyLen,
                                                           plane.data, plane.offset)
                             ELSE dest
             outcomes     == IF pending THEN {dest, written} ELSE {written}
         IN  UNION {CopyPlanes(Tail(planes), d, destOffset + copyLen, remaining - copyLen,
                               pending \/ ~ok) : d \in outcomes}

\* FrameBuffer.nativeCopyBuffer, lines 811-837; dest is the Java array passed
FrameBuffer_nativeCopyBuffer(mapHandle, dest, offset, length) ==
    /\ Unlocked
    /\ IF mapHandle \notin DOMAIN g_mappedBuffers
       THEN Same([op |-> "copy", h |-> 0, ret |-> 0, found |-> FALSE,
                  stale |-> mapHandle \in erased, aux |-> [threw |-> TRUE]])
       ELSE LET view == g_mappedBuffers[mapHandle] IN
            \E out \in CopyPlanes(view.planes, dest, offset,
                                  Remaining(length, view.totalLength), FALSE) :
                Same(Did("copy", mapHandle, 0,
                         [dest |-> out.dest, threw |-> out.threw, n |-> Len(dest),
                          offset |-> offset, length |-> length,
                          planes |-> view.planes, totalLength |-> view.totalLength]))

\* ------------------------------------------------------------------- runs

\* SpecRouter: one device, opened through any number of handles
RouterReports == {NoMetadata}
RouterIds == {1, NoCamera}

RouterNext ==
    \/ g_nextHandle <= RouterMaxHandle /\ CameraManager_nativeCreate_alloc
    \/ CameraManager_nativeCreate_insert
    \/ \E h \in Args(g_cameraManagers) : CameraManager_nativeStart(h)
    \/ \E h \in Args(g_cameraManagers), id \in RouterIds :
          g_nextHandle <= RouterMaxHandle /\ CameraManager_nativeGetCamera(h, id)
    \/ \E h \in Args(g_cameras) : Camera_nativeRelease(h)
    \/ \E h \in Args(g_cameras) : Camera_nativeStart(h)
    \/ \E h \in Args(g_cameras) : Camera_nativeStop_call(h)
    \/ Camera_nativeStop_return
    \/ \E h \in Args(g_cameras) :
          g_nextHandle <= RouterMaxHandle /\ Camera_nativeCreateRequest(h)
    \/ \E h \in Args(g_cameras), r \in Args(g_requests) : Camera_nativeQueueRequest(h, r)
    \/ \E h \in Args(g_requests) : Request_nativeDestroy(h)
    \/ \E h \in Args(g_requests) : Request_nativeReuse(h)
    \/ \E i \in 1 .. MaxInflight, report \in RouterReports : Signal(i, report)
    \/ requestCompleted
    \/ \E h \in Args(g_completedRequests) : Camera_nativePollCompletedRequest(h)

SpecRouter == Init /\ [][RouterNext]_vars

\* SpecMapper: one device, its configurations, allocators and mapped views
StreamIndexes == 0 .. MaxStreams    \* the last one is out of range
BufferIndexes == 0 .. 1             \* the last one is out of range
MmapFailures  == 0 .. 2

MapperNext ==
    \/ g_nextHandle <= MapperMaxHandle /\ CameraManager_nativeCreate_alloc
    \/ CameraManager_nativeCreate_insert
    \/ \E h \in Args(g_cameraManagers) : CameraManager_nativeStart(h)
    \/ \E h \in Args(g_cameraManagers), id \in RouterIds :
          g_nextHandle <= MapperMaxHandle /\ CameraManager_nativeGetCamera(h, id)
    \/ \E h \in Args(g_cameras), roles \in 0 .. MaxStreams :
          g_nextHandle <= MapperMaxHandle /\ Camera_nativeGenerateConfiguration(h, roles)
    \/ \E h \in Args(g_cameras), c \in Args(g_configurations) : Camera_nativeConfigure(h, c)
    \/ \E h \in Args(g_configurations) : CameraConfiguration_nativeDestroy(h)
    \/ \E h \in Args(g_cameras) :
          g_nextHandle <= MapperMaxHandle /\ FrameBufferAllocator_nativeCreate(h)
    \/ \E h \in Args(g_allocators) : FrameBufferAllocator_nativeDestroy(h)
    \/ \E h \in Args(g_allocators), c \in Args(g_configurations), s \in StreamIndexes,
          shape \in BufferShapes :
          FrameBufferAllocator_nativeAllocate(h, c, s, shape)
    \/ \E a \in Args(g_allocators), c \in Args(g_configurations), s \in StreamIndexes,
          b \in BufferIndexes, f \in MmapFailures :
          g_nextHandle <= MapperMaxHandle /\ FrameBuffer_nativeMapBuffer(a, c, s, b, f)
    \/ \E h \in Args(g_mappedBuffers) : FrameBuffer_nativeUnmapBuffer(h)

SpecMapper == Init /\ [][MapperNext]_vars


\* SpecView: one view is mapped, measured and copied out
ViewShapes  == {<< Plane(3, 0, 2) >>, << Plane(3, 1, 2), Plane(4, 0, 1) >>,
                << Plane(3, 2, 0), Plane(4, 1, 1) >>}
DestOffsets == -1 .. 2
CopyLengths == -1 .. MaxCopy

ViewNext ==
    \/ g_nextHandle <= ViewMaxHandle /\ CameraManager_nativeCreate_alloc
    \/ CameraManager_nativeCreate_insert
    \/ \E h \in Args(g_cameraManagers) : CameraManager_nativeStart(h)
    \/ \E h \in Args(g_cameraManagers), id \in RouterIds :
          g_nextHandle <= ViewMaxHandle /\ CameraManager_nativeGetCamera(h, id)
    \/ \E h \in Args(g_cameras), roles \in 0 .. MaxStreams :
          g_nextHandle <= ViewMaxHandle /\ Camera_nativeGenerateConfiguration(h, roles)
    \/ \E h \in Args(g_cameras), c \in Args(g_configurations) : Camera_nativeConfigure(h, c)
    \/ \E h \in Args(g_cameras) :
          g_nextHandle <= ViewMaxHandle /\ FrameBufferAllocator_nativeCreate(h)
    \/ \E h \in Args(g_allocators), c \in Args(g_configurations), s \in StreamIndexes,
          shape \in ViewShapes :
          FrameBufferAllocator_nativeAllocate(h, c, s, shape)
    \/ \E a \in Args(g_allocators), c \in Args(g_configurations), s \in StreamIndexes,
          b \in BufferIndexes :
          g_nextHandle <= ViewMaxHandle /\ FrameBuffer_nativeMapBuffer(a, c, s, b, 0)
    \/ \E h \in Args(g_mappedBuffers) : FrameBuffer_nativeUnmapBuffer(h)
    \/ \E h \in Args(g_mappedBuffers) : FrameBuffer_nativeGetBufferSize(h)
    \/ \E h \in Args(g_mappedBuffers), n \in 0 .. MaxDest, offset \in DestOffsets,
          length \in CopyLengths :
          FrameBuffer_nativeCopyBuffer(h, Blank(n), offset, length)

SpecView == Init /\ [][ViewNext]_vars

\* SpecControls: one session whose operations are given controls, queued,
\* completed with the metadata the pipeline reports, read and reused
Exposures == {15000, 20000}
Reports   == {NoMetadata,
              [ExposureTime |-> {10000}, AnalogueGain |-> {}],
              [ExposureTime |-> {20000}, AnalogueGain |-> {2}]}

ControlsNext ==
    \/ g_nextHandle <= ControlsMaxHandle /\ CameraManager_nativeCreate_alloc
    \/ CameraManager_nativeCreate_insert
    \/ \E h \in Args(g_cameraManagers) : CameraManager_nativeStart(h)
    \/ \E h \in Args(g_cameraManagers) : CameraManager_nativeStop(h)
    \/ \E h \in Args(g_cameraManagers) :
          g_nextHandle <= ControlsMaxHandle /\ CameraManager_nativeGetCamera(h, 1)
    \/ \E h \in Args(g_cameras) : Camera_nativeRelease(h)
    \/ \E h \in Args(g_cameras) : Camera_nativeStart(h)
    \/ \E h \in Args(g_cameras) : Camera_nativeStop_call(h)
    \/ Camera_nativeStop_return
    \/ \E h \in Args(g_cameras) :
          g_nextHandle <= ControlsMaxHandle /\ Camera_nativeCreateRequest(h)
    \/ \E h \in Args(g_cameras), r \in Args(g_requests) : Camera_nativeQueueRequest(h, r)
    \/ \E h \in Args(g_requests) : Request_nativeReuse(h)
    \/ \E h \in Args(g_requests), v \in Exposures : Request_nativeSetExposureTime(h, v)
    \/ \E h \in Args(g_requests) : Request_nativeGetExposureTime(h)
    \/ \E h \in Args(g_requests) : Request_nativeGetAnalogueGain(h)
    \/ \E i \in 1 .. MaxInflight, report \in Reports : Signal(i, report)
    \/ requestCompleted

SpecControls == Init /\ [][ControlsNext]_vars

\* SpecStop: one session is started, given operations and stopped while the
\* pipeline thread works.  Fairness: the pipeline thread keeps running (it
\* completes what it holds and runs a slot as soon as the slot can take
\* g_mutex), and nativeStop goes on as soon as Camera::stop() has returned.
StopNext ==
    \/ g_nextHandle <= StopMaxHandle /\ CameraManager_nativeCreate_alloc
    \/ CameraManager_nativeCreate_insert
    \/ \E h \in Args(g_cameraManagers) : CameraManager_nativeStart(h)
    \/ \E h \in Args(g_cameraManagers) :
          g_nextHandle <= StopMaxHandle /\ CameraManager_nativeGetCamera(h, 1)
    \/ \E h \in Args(g_cameras) : Camera_nativeStart(h)
    \/ \E h \in Args(g_cameras) : Camera_nativeStop_call(h)
    \/ Camera_nativeStop_return
    \/ \E h \in Args(g_cameras) :
          g_nextHandle <= StopMaxHandle /\ Camera_nativeCreateRequest(h)
    \/ \E h \in Args(g_cameras), r \in Args(g_requests) : Camera_nativeQueueRequest(h, r)
    \/ \E h \in Args(g_requests) : Request_nativeReuse(h)
    \/ \E i \in 1 .. MaxInflight, report \in RouterReports : Signal(i, report)
    \/ requestCompleted
    \/ \E h \in Args(g_completedRequests) : Camera_nativePollCompletedRequest(h)

SpecStop ==
    /\ Init /\ [][StopNext]_vars
    /\ WF_vars(Camera_nativeStop_return)
    /\ WF_vars(requestCompleted)
    /\ WF_vars(\E i \in 1 .. MaxInflight, report \in RouterReports : Signal(i, report))

\* SpecRelease: sessions of one device are opened, used and released while
\* the pipeline completes their operations
ReleaseNext ==
    \/ g_nextHandle <= ReleaseMaxHandle /\ CameraManager_nativeCreate_alloc
    \/ CameraManager_nativeCreate_insert
    \/ \E h \in Args(g_cameraManagers) : CameraManager_nativeStart(h)
    \/ \E h \in Args(g_cameraManagers) :
          g_nextHandle <= ReleaseMaxHandle /\ CameraManager_nativeGetCamera(h, 1)
    \/ \E h \in Args(g_cameras) : Camera_nativeAcquire(h)
    \/ \E h \in Args(g_cameras) : Camera_nativeRelease(h)
    \/ \E h \in Args(g_cameras) : Camera_nativeStart(h)
    \/ \E h \in Args(g_cameras), roles \in 0 .. MaxStreams :
          g_nextHandle <= ReleaseMaxHandle /\ Camera_nativeGenerateConfiguration(h, roles)
    \/ \E h \in Args(g_cameras), c \in Args(g_configurations) : Camera_nativeConfigure(h, c)
    \/ \E h \in Args(g_cameras) :
          g_nextHandle <= ReleaseMaxHandle /\ Camera_nativeCreateRequest(h)
    \/ \E h \in Args(g_cameras), r \in Args(g_requests) : Camera_nativeQueueRequest(h, r)
    \/ \E i \in 1 .. MaxInflight, report \in RouterReports : Signal(i, report)
    \/ requestCompleted
    \/ \E h \in Args(g_completedRequests) : Camera_nativePollCompletedRequest(h)

SpecRelease == Init /\ [][ReleaseNext]_vars

\* SpecThreads: caller threads create managers, sessions and operations
\* while one of them is inside nativeStop and the pipeline thread signals
ThreadsNext ==
    \/ g_nextHandle <= ThreadsMaxHandle /\ CameraManager_nativeCreate_alloc
    \/ CameraManager_nativeCreate_insert
    \/ \E h \in Args(g_cameraManagers) : CameraManager_nativeDestroy(h)
    \/ \E h \in Args(g_cameraManagers) : CameraManager_nativeStart(h)
    \/ \E h \in Args(g_cameraManagers) :
          g_nextHandle <= ThreadsMaxHandle /\ CameraManager_nativeGetCamera(h, 1)
    \/ \E h \in Args(g_cameras) : Camera_nativeStart(h)
    \/ \E h \in Args(g_cameras) : Camera_nativeStop_call(h)
    \/ Camera_nativeStop_return
    \/ \E h \in Args(g_cameras) :
          g_nextHandle <= ThreadsMaxHandle /\ Camera_nativeCreateRequest(h)
    \/ \E h \in Args(g_cameras), r \in Args(g_requests) : Camera_nativeQueueRequest(h, r)
    \/ \E i \in 1 .. MaxInflight, report \in RouterReports : Signal(i, report)
    \/ requestCompleted
    \/ \E h \in Args(g_completedRequests) : Camera_nativePollCompletedRequest(h)

SpecThreads == Init /\ [][ThreadsNext]_vars

\* Spec: the registry.  Resources of every kind are created, looked up and
\* erased; the pipeline stays idle.
RegistryIndexes  == {0}
RegistryShapes   == {<< Plane(3, 0, 2) >>}
RegistryFailures == {0, 1}
RegistryBuffers  == {0, 1}          \* the last one is out of range
Created(kind) == Cardinality({h \in DOMAIN born : born[h].kind = kind})

Next ==
    \/ Created("manager") < MaxManagers /\ CameraManager_nativeCreate_alloc
    \/ CameraManager_nativeCreate_throw
    \/ CameraManager_nativeCreate_insert
    \/ \E h \in Args(g_cameraManagers) : CameraManager_nativeDestroy(h)
    \/ \E h \in Args(g_cameraManagers) : CameraManager_nativeStart(h)
    \/ \E h \in Args(g_cameraManagers), id \in RouterIds :
          Created("camera") < MaxPerKind /\ CameraManager_nativeGetCamera(h, id)
    \/ \E h \in Args(g_cameras) : Camera_nativeRelease(h)
    \/ \E h \in Args(g_cameras) :
          Created("request") < MaxPerKind /\ Camera_nativeCreateRequest(h)
    \/ \E h \in Args(g_requests) : Request_nativeDestroy(h)
    \/ \E h \in Args(g_requests) : Request_nativeReuse(h)
    \/ \E h \in Args(g_completedRequests) : Camera_nativePollCompletedRequest(h)
    \/ \E h \in Args(g_cameras), roles \in 0 .. MaxStreams :
          Created("config") < MaxPerKind /\ Camera_nativeGenerateConfiguration(h, roles)
    \/ \E h \in Args(g_cameras), c \in Args(g_configurations) : Camera_nativeConfigure(h, c)
    \/ \E h \in Args(g_configurations) : CameraConfiguration_nativeDestroy(h)
    \/ \E h \in Args(g_cameras) :
          Created("allocator") < MaxPerKind /\ FrameBufferAllocator_nativeCreate(h)
    \/ \E h \in Args(g_allocators) : FrameBufferAllocator_nativeDestroy(h)
    \/ \E h \in Args(g_allocators), c \in Args(g_configurations), s \in RegistryIndexes,
          shape \in RegistryShapes :
          FrameBufferAllocator_nativeAllocate(h, c, s, shape)
    \/ \E a \in Args(g_allocators), c \in Args(g_configurations), s \in RegistryIndexes,
          b \in RegistryBuffers, f \in RegistryFailures :
          Created("map") < MaxPerKind /\ FrameBuffer_nativeMapBuffer(a, c, s, b, f)
    \/ \E h \in Args(g_mappedBuffers) : FrameBuffer_nativeUnmapBuffer(h)

Spec == Init /\ [][Next]_vars

\* ------------------------------------------------------------ properties

\* C1 (SpecRouter).  After one queued operation completes on a started
\* session, one poll of the session returns the operation's handle and the
\* next returns 0, after any start/stop calls and with any number of
\* handles open on the device: while nothing has been destroyed or released
\* and no emission is in progress, a poll returns a handle exactly when a
\* completion is still owed to the session, and the handle is that of an
\* operation owed.  Stated for the case of one handle open on the device.
C1_OnePollPerCompletion ==
    (last.op = "poll" /\ last.found /\ erased = {} /\ emit = None
        /\ Cardinality(DOMAIN g_cameras) = 1)
        => /\ (last.ret # 0) <=> (last.aux.owed # {})
           /\ last.ret # 0 => \E o \in last.aux.owed : o.op = last.ret

\* C2 (SpecRouter).  The completion of an operation created through session
\* S is pushed on the queue of S and of no other session, also when several
\* handles are open on one device: the slot picks the queue of the session
\* the operation was created through (while the operation and the session
\* exist).
C2_RoutedToCreator ==
    (last.op = "requestCompleted" /\ last.aux.op \in DOMAIN g_requests
        /\ last.aux.via \in DOMAIN g_cameras)
        => last.h = last.aux.via

\* C3 (SpecRouter).  Polls of one session return handles in the order the
\* pipeline signalled the completions: every queue is in signal order, a
\* poll takes the entry signalled first, and the handle it returns is the
\* handle of that entry's operation when the operation still exists.
C3_Fifo ==
    /\ \A h \in DOMAIN g_completedRequests :
          \A i, j \in 1 .. Len(g_completedRequests[h]) :
              i < j => g_completedRequests[h][i].seq <= g_completedRequests[h][j].seq
    /\ (last.op = "poll" /\ last.aux.queued > 0)
          => /\ \A i \in 1 .. Len(last.aux.rest) :
                    last.aux.front.seq <= last.aux.rest[i].seq
             /\ g_completedRequests[last.h] = last.aux.rest
             /\ last.aux.front.op \in DOMAIN g_requests => last.ret = last.aux.front.op

\* C3 witness: a poll returned the operation signalled first while one
\* signalled later waited behind it.
C3_Witness ==
    /\ last.op = "poll" /\ last.aux.queued > 1
    /\ last.ret = last.aux.front.op
    /\ last.aux.rest[1].seq > last.aux.front.seq
    /\ last.aux.rest[1].op # last.aux.front.op

\* C4 (SpecRouter).  A poll returns 0 only when the session's queue holds no
\* completion, also when the caller has destroyed operations that were in
\* flight or queued.
C4_ZeroOnlyWhenEmpty ==
    (last.op = "poll" /\ last.ret = 0) => last.aux.queued = 0

\* C9 (SpecRouter).  When stop(session) returns, the session's queue is
\* empty, whatever was queued before.
C9_StopDrains ==
    last.op = "stop" => last.h \in DOMAIN g_completedRequests
                        /\ g_completedRequests[last.h] = <<>>

\* C9 witness: a stop returned on a session that had completions queued.
C9_Witness ==
    last.op = "stop" /\ last.aux.queued > 0 /\ g_completedRequests[last.h] = <<>>

TableOf(kind) ==
    CASE kind = "manager"   -> g_cameraManagers
      [] kind = "camera"    -> g_cameras
      [] kind = "config"    -> g_configurations
      [] kind = "allocator" -> g_allocators
      [] kind = "request"   -> g_requests
      [] kind = "map"       -> g_mappedBuffers
Kinds == {"manager", "camera", "config", "allocator", "request", "map"}
Resource(kind, h) ==
    CASE kind = "camera"  -> g_cameras[h]
      [] kind = "request" -> g_requests[h].ptr
      [] OTHER            -> h

\* C6 (Spec).  Once a handle is erased every operation given it takes the
\* not-found path; until then the handle resolves to the resource inserted
\* under it: no erased handle is a key, an operation given an erased handle
\* did not find it, and every key names the resource of its insertion.
C6_EraseIsFinal ==
    /\ last.stale => ~last.found
    /\ \A kind \in Kinds : \A h \in DOMAIN TableOf(kind) :
          /\ h \notin erased
          /\ h \in DOMAIN born
          /\ born[h] = [kind |-> kind, id |-> Resource(kind, h)]
    /\ DOMAIN g_completedRequests \cap erased = {}

\* C6 witness: an operation was given an erased handle (and missed) while
\* another handle was still live.
C6_Witness ==
    /\ last.op = "miss" /\ last.stale /\ ~last.found
    /\ \E kind \in Kinds : DOMAIN TableOf(kind) # {}

\* C7 (Spec).  The key sets of the six tables are pairwise disjoint.
C7_KindsDisjoint ==
    \A k1, k2 \in Kinds : k1 # k2 => DOMAIN TableOf(k1) \cap DOMAIN TableOf(k2) = {}

\* C7 witness: all six tables hold a key at once.
C7_Witness ==
    \A kind \in Kinds : DOMAIN TableOf(kind) # {}

\* C8 (Spec).  0 is a key of no table and of no queue; every key is at
\* least 1 and below g_nextHandle; a creation that returned 0 inserted
\* nothing.
C8_ZeroIsNoHandle ==
    /\ \A kind \in Kinds : \A h \in DOMAIN TableOf(kind) : 1 <= h /\ h < g_nextHandle
    /\ \A h \in DOMAIN g_completedRequests : 1 <= h /\ h < g_nextHandle
    /\ (last.op \in {"create", "map"} /\ last.ret = 0)
          => Keys = last.aux.keys /\ g_nextHandle = last.aux.next

\* C8 witness: a creation returned 0 on a found handle while tables held keys.
C8_Witness ==
    /\ last.op = "create" /\ last.ret = 0 /\ last.found
    /\ DOMAIN g_cameras # {} /\ DOMAIN g_cameraManagers # {}

\* C10 (SpecMapper).  A map that fails at a plane unmaps the planes it had
\* mapped, inserts nothing and returns 0: the live mappings, the tables and
\* the counter are those of before the call.
C10_FailedMapLeavesNothing ==
    last.op = "map"
        => /\ last.ret = 0
           /\ vmas = last.aux.vmas
           /\ Keys = last.aux.keys
           /\ g_nextHandle = last.aux.next

\* C10 witness: a map failed after mapping a plane, with a view already live.
C10_Witness ==
    /\ last.op = "map" /\ last.ret = 0
    /\ last.aux.mapped > 0 /\ last.aux.at = last.aux.mapped
    /\ vmas # {} /\ DOMAIN g_mappedBuffers # {}

\* C11 (SpecMapper).  map checks its stream index against the stream count of
\* the configuration and reports failure, touching no stream and no buffer,
\* when the index is out of range: a map call given an index that is not one
\* of the configuration returns 0 before it maps anything.
C11_IndicesChecked ==
    (last.found /\ (last.op = "map" \/ (last.op = "create" /\ last.aux.kind = "map"))
        /\ ~last.aux.inRange)
        => last.op = "create" /\ last.ret = 0

\* C12 (SpecMapper).  The allocator a view was mapped from is in the
\* allocator table for as long as the view is in the mapped-view table.
C12_ViewWithinAllocator ==
    \A h \in DOMAIN g_mappedBuffers : g_mappedBuffers[h].from \in DOMAIN g_allocators

\* the mappings the planes of a set of views hold
RegionsOf(planes) ==
    {[addr |-> planes[i].data, len |-> planes[i].length] : i \in 1 .. Len(planes)}
ViewRegions ==
    UNION {RegionsOf(g_mappedBuffers[h].planes) : h \in DOMAIN g_mappedBuffers}

\* C13 (SpecMapper).  unmap releases each plane mapping of a view exactly
\* once: the live mappings are exactly those of the planes of the views in
\* the table, the first unmap of a view removes its entry and its planes'
\* mappings and no other, and an unmap of a handle not in the table changes
\* nothing.
C13_UnmapOnce ==
    /\ vmas = ViewRegions
    /\ \A h1, h2 \in DOMAIN g_mappedBuffers :
          h1 # h2 => RegionsOf(g_mappedBuffers[h1].planes)
                        \cap RegionsOf(g_mappedBuffers[h2].planes) = {}
    /\ (last.op = "unmap" /\ last.found)
          => /\ last.h \notin DOMAIN g_mappedBuffers
             /\ vmas = last.aux.vmas \ RegionsOf(last.aux.planes)
             /\ RegionsOf(last.aux.planes) \subseteq last.aux.vmas
    /\ (last.op = "unmap" /\ ~last.found)
          => vmas = last.aux.vmas /\ Keys = last.aux.keys

\* C13 witness: a second unmap of a view found nothing, with another view live.
C13_Witness ==
    /\ last.op = "unmap" /\ ~last.found /\ last.stale
    /\ last.aux.handle \in DOMAIN born /\ born[last.aux.handle].kind = "map"
    /\ vmas # {} /\ DOMAIN g_mappedBuffers # {}

\* ------------------------------------------------------------ copying out

\* the payload of a view: plane after plane, the bytes from base + offset to
\* the end of the plane's mapping
RECURSIVE Payload(_)
Payload(planes) ==
    IF planes = <<>> THEN <<>>
    ELSE LET plane == Head(planes) IN
         [k \in 1 .. (plane.length - plane.offset) |-> Byte(plane.data, plane.offset + k - 1)]
             \o Payload(Tail(planes))

\* an array of n bytes of which nothing but the first count bytes of bytes,
\* placed from offset on, has been written
Written(n, offset, bytes, count) ==
    [j \in 1 .. n |-> IF offset < j /\ j <= offset + count THEN bytes[j - offset]
                      ELSE Untouched]

\* C14: a copy into an array that has fewer bytes left from destOffset than
\* min(maxLength, totalLength) is cut down to the bytes that fit: the array
\* then holds the first length(dest) - destOffset bytes of the payload from
\* destOffset on.
C14_TruncatedToFit ==
    (last.op = "copy" /\ last.found /\ last.aux.length >= 0
        /\ 0 <= last.aux.offset /\ last.aux.offset <= last.aux.n)
        => last.aux.dest =
               Written(last.aux.n, last.aux.offset, Payload(last.aux.planes),
                       Min({last.aux.n - last.aux.offset, last.aux.length,
                            last.aux.totalLength}))

\* C15: a copy from a valid view into an array large enough writes exactly
\* min(maxLength, totalLength) bytes, the first bytes of the payload, from
\* destOffset on; a maxLength of zero or below writes nothing.
C15_ExactlyMinBytes ==
    (last.op = "copy" /\ last.found /\ 0 <= last.aux.offset
        /\ last.aux.offset + last.aux.totalLength <= last.aux.n)
        => /\ ~last.aux.threw
           /\ last.aux.dest =
                  Written(last.aux.n, last.aux.offset, Payload(last.aux.planes),
                          IF last.aux.length < 0 THEN 0
                          ELSE Min({last.aux.length, last.aux.totalLength}))
\* the sums of the lengths and of the offsets of a sequence of planes
RECURSIVE SumOfLengths(_)
SumOfLengths(planes) ==
    IF planes = <<>> THEN 0 ELSE Head(planes).length + SumOfLengths(Tail(planes))

RECURSIVE SumOfOffsets(_)
SumOfOffsets(planes) ==
    IF planes = <<>> THEN 0 ELSE Head(planes).offset + SumOfOffsets(Tail(planes))

\* C16: the length of a view is the sum of the declared lengths of the planes
\* of the buffer it maps, leading offsets left out; the mapped length
\* recorded for a plane is its offset plus its declared length; so the
\* recorded mapped lengths less the offsets add up to the length of the view,
\* and that is the size the view reports.
C16_LengthIsPayload ==
    /\ \A h \in DOMAIN g_mappedBuffers :
          LET view == g_mappedBuffers[h] IN
          /\ Len(view.planes) = Len(view.fb)
          /\ \A i \in 1 .. Len(view.fb) :
                /\ view.planes[i].offset = view.fb[i].offset
                /\ view.planes[i].length = view.fb[i].offset + view.fb[i].length
          /\ view.totalLength = SumOfLengths(view.fb)
          /\ view.totalLength = SumOfLengths(view.planes) - SumOfOffsets(view.planes)
    /\ (last.op = "size" /\ last.found)
          => last.ret = SumOfLengths(g_mappedBuffers[last.h].fb)

\* the size of a view of two planes, one of them with a leading offset, has
\* been asked
C16_Witness ==
    /\ last.op = "size" /\ last.found
    /\ Len(g_mappedBuffers[last.h].planes) = 2
    /\ \E i \in 1 .. 2 : g_mappedBuffers[last.h].planes[i].offset > 0
    /\ last.ret = 3
\* --------------------------------------------------------------- controls

\* C17: an exposure time set on an operation that has not been queued is the
\* exposure time then read from it.
C17_SetThenGet ==
    (last.op = "getExposureTime" /\ last.found /\ ~last.aux.queued
        /\ last.aux.request.status = "pending"
        /\ last.aux.request.controls.ExposureTime # {})
        => last.aux.request.controls.ExposureTime = {last.ret}

\* the calls the invalid-handle rule is stated for, of those modelled
RaisingCalls == {"setExposureTime", "reuse", "stop", "release"}

\* C18: a setter, reuse, a session stop or release or a manager stop called
\* with a handle that is in no table raises the invalid-handle error: it
\* never returns quietly.
C18_AbsentHandleRaises ==
    ~(last.op = "quiet" /\ last.aux.call \in RaisingCalls)

\* C19: an operation is with the pipeline at most once at a time: it is not
\* submitted again before it has completed.
C19_QueuedOncePerCycle ==
    \A i, j \in 1 .. Len(inflight) : inflight[i].op = inflight[j].op => i = j

\* C20: the analogue gain read from an operation is the gain its metadata
\* reports, and 1.0 when the metadata holds none or the handle is in no
\* table, where the read returns quietly: it raises nothing.
C20_GainOrDefault ==
    /\ (last.op = "getAnalogueGain" /\ last.aux.request.metadata.AnalogueGain = {})
          => last.ret = 1
    /\ (last.op = "getAnalogueGain" /\ last.aux.request.metadata.AnalogueGain # {})
          => last.aux.request.metadata.AnalogueGain = {last.ret}
    /\ (last.op = "quiet" /\ last.aux.call = "getAnalogueGain") => last.ret = 1

\* the gain of a completed operation whose metadata reports 2.0 has been read
C20_Witness ==
    /\ last.op = "getAnalogueGain" /\ last.found /\ last.ret = 2
    /\ last.aux.request.status = "complete"
    /\ last.aux.request.metadata.AnalogueGain = {2}
\* ------------------------------------------------------- router, continued

\* C21: whatever start and stop calls were made, at most one slot is
\* connected to a device's requestCompleted signal, so that one signal
\* makes one push.
C21_OneSlotConnected ==
    \A dev \in Devices : connected[dev] <= 1
\* C22: a caller's operation returns and releases g_mutex while the pipeline
\* thread delivers completion signals: a nativeStop that has taken the lock
\* gives it back, also when the pipeline signals, during the stop, the
\* operations still in flight.  Stated for stops during which the pipeline
\* can signal everything it holds (the bound on signals is not in the way).
C22_StopReturns ==
    (g_mutex # 0 /\ nsig + Len(inflight) <= MaxSignals) ~> (g_mutex = 0)
\* a step of the completion router: the slot, a poll, a stop or a release
RouterStep ==
    \/ requestCompleted
    \/ \E h \in Args(g_completedRequests) : Camera_nativePollCompletedRequest(h)
    \/ \E h \in Args(g_cameras) : Camera_nativeStop_call(h)
    \/ Camera_nativeStop_return
    \/ \E h \in Args(g_cameras) : Camera_nativeRelease(h)

\* C23: no step of the completion router removes or replaces an entry of
\* g_requests: the slot, a poll, a stop and a release leave the table as it
\* was.
C23_RouterKeepsRequests ==
    [][RouterStep => g_requests' = g_requests]_vars

\* C23 witness: a poll has returned the handle of an operation, which is
\* still in the table, with another completion waiting behind it.
C23_Witness ==
    /\ last.op = "poll" /\ last.ret # 0 /\ last.ret \in DOMAIN g_requests
    /\ last.aux.queued > 1
\* C25: a poll of a session that returns a handle returns the handle of an
\* operation that is in g_requests, was created through that session, and
\* has a completion signalled and not yet handed to a poll, also when
\* operations were destroyed and created while completions were queued.
\* Stated for runs with one session opened and one slot connected.
C25_PollReturnsOwed ==
    (last.op = "poll" /\ last.ret # 0
        /\ Cardinality({h \in DOMAIN born : born[h].kind = "camera"}) <= 1
        /\ \A dev \in Devices : connected[dev] <= 1)
        => /\ last.ret \in DOMAIN g_requests
           /\ g_requests[last.ret].via = last.h
           /\ \E o \in last.aux.owed : o.op = last.ret
\* C26: the handles that have a completion queue are the keys of g_cameras:
\* nativeGetCamera inserts both, nativeRelease erases both, and neither the
\* slot, a stop nor a poll makes a queue for a handle that is not a key of
\* g_cameras; a completion signalled after the release is dropped.
C26_QueuesAreSessions ==
    /\ DOMAIN g_completedRequests = DOMAIN g_cameras
    /\ (last.op = "requestCompleted" /\ last.h = 0)
          => \A h \in DOMAIN g_completedRequests :
                \A i \in 1 .. Len(g_completedRequests[h]) :
                    g_completedRequests[h][i].seq # last.aux.seq
                        \/ g_completedRequests[h][i].op # last.aux.op

\* C26 witness: the slot ran for a live operation whose session had been
\* released, and found no handle.
C26_Witness ==
    /\ last.op = "requestCompleted" /\ last.h = 0
    /\ last.aux.via \in erased
    /\ last.aux.op \in DOMAIN g_requests
\* --------------------------------------------------------- failed creations

\* C28: a creation that fails (handle not found, unknown camera id, no
\* configuration or no request from the pipeline, index out of range, a
\* plane that cannot be mapped) leaves g_nextHandle and every table as they
\* were; the counter moves only by one, and only in a creation that
\* returns the handle it took.
C28_FailedCreationKeepsCounter ==
    [][/\ (last'.op \in {"create", "map"} /\ last'.ret = 0)
             => UNCHANGED <<tables, g_nextHandle, cmPending>>
       /\ g_nextHandle' # g_nextHandle
             => /\ g_nextHandle' = g_nextHandle + 1
                /\ \/ cmPending = 0 /\ cmPending' = g_nextHandle
                   \/ last'.op = "create" /\ last'.ret = g_nextHandle
      ]_vars

\* C28 witness: a map failed at a plane after other creations had succeeded,
\* and the counter is where it was.
C28_Witness ==
    /\ last.op = "map" /\ last.ret = 0
    /\ g_nextHandle = last.aux.next /\ g_nextHandle > 4
    /\ DOMAIN g_requests # {}
\* ------------------------------------------------------------------ release

\* the session handles released so far
Released == {h \in erased : born[h].kind = "camera"}

\* the call reported an invalid session handle and wrote nothing
InvalidSession ==
    /\ last'.op \in {"miss", "create"} /\ ~last'.found
    /\ last'.op = "miss" => last'.aux = "camera"
    /\ UNCHANGED <<tables, g_nextHandle, pipe>>

\* C27: nativeRelease of a session handle in g_cameras erases the handle and
\* its completion queue with everything queued in it; from then on acquire,
\* start, configure, createRequest and queueRequest with the handle report
\* an invalid session handle, a poll returns 0, and another release does
\* nothing.
C27_ReleaseIsFinal ==
    [][/\ \A h \in DOMAIN g_cameras :
             Camera_nativeRelease(h)
                 => /\ h \notin DOMAIN g_cameras' /\ h \notin DOMAIN g_completedRequests'
                    /\ \A k \in DOMAIN g_cameras \ {h} :
                          /\ g_cameras'[k] = g_cameras[k]
                          /\ g_completedRequests'[k] = g_completedRequests[k]
       /\ \A h \in Released :
             /\ h \notin DOMAIN g_cameras /\ h \notin DOMAIN g_completedRequests
             /\ Camera_nativeAcquire(h) => InvalidSession
             /\ Camera_nativeStart(h) => InvalidSession
             /\ Camera_nativeCreateRequest(h) => InvalidSession
             /\ \A c \in Args(g_configurations) :
                   Camera_nativeConfigure(h, c) => InvalidSession
             /\ \A r \in Args(g_requests) :
                   Camera_nativeQueueRequest(h, r) => InvalidSession
             /\ Camera_nativePollCompletedRequest(h)
                   => last'.ret = 0 /\ UNCHANGED <<tables, g_nextHandle, pipe>>
             /\ Camera_nativeRelease(h)
                   => last'.op = "quiet" /\ UNCHANGED <<tables, g_nextHandle, pipe>>
      ]_vars

\* C27 witness: a release took away a queue that held a completion
C27_Witness ==
    /\ last.op = "release" /\ last.aux.queued > 0
    /\ last.h \notin DOMAIN g_cameras /\ last.h \notin DOMAIN g_completedRequests
\* ------------------------------------------------------------------ threads

\* C24: under every interleaving of caller threads and the pipeline thread,
\* no creation obtains a handle another creation has obtained, also while
\* one is between allocHandle() and its insertion; and the tables, the
\* queues and the counter are read and written by the holder of g_mutex
\* only: while a nativeStop holds the lock, the one step another thread
\* takes is a step of the pipeline thread that needs no table, and nothing
\* is written until the holder goes on.
C24_TablesUnderLock ==
    [][/\ (last'.op = "create" /\ last'.ret # 0)
             => /\ last'.ret \notin returned
                /\ cmPending' # 0 => last'.ret # cmPending'
       /\ (cmPending = 0 /\ cmPending' # 0) => cmPending' \notin returned
       /\ (g_mutex # 0 /\ ~Camera_nativeStop_return)
             => /\ last'.op \in {"signal", "requestCompleted"}
                /\ last'.op = "requestCompleted" => last'.h = 0
                /\ UNCHANGED <<g_cameraManagers, g_cameras, g_configurations, g_allocators,
                               g_mappedBuffers, g_completedRequests, g_nextHandle, cmPending>>
                /\ DOMAIN g_requests' = DOMAIN g_requests
      ]_vars

\* C24 witness: a creation has returned a handle while another creation is
\* between allocHandle() and its insertion, a nativeStop holds the lock and
\* the pipeline thread has a slot to run.
C24_Witness ==
    /\ cmPending # 0 /\ g_mutex # 0 /\ emit # None
    /\ \E h \in returned : h > cmPending
====
